---- MODULE Spec2Model ----
(***************************************************************************)
(* Model of the cherub enforcement engine: the tiered policy and its       *)
(* compiled matcher (enforcement/policy.rs), the decision function         *)
(* (enforcement/mod.rs), the capability token (enforcement/capability.rs)  *)
(* and the Proposed -> Evaluated -> executed pipeline (tools/mod.rs).      *)
(*                                                                         *)
(* Strings that the code inspects character by character (commands and     *)
(* regular expressions) are sequences of one-character strings; strings    *)
(* that are only compared for equality (tool and action names) are TLA+    *)
(* strings.  A HashMap is a sequence of entries with distinct keys: the    *)
(* order of the sequence is the order its iterator yields, and every       *)
(* order is enumerated.                                                    *)
(***************************************************************************)
EXTENDS Naturals, Sequences, FiniteSets

VARIABLES
    file,       \* the deserialized policy document the Policy was built from
    policy,     \* Result<Policy, CherubError> of Policy::from_str(file)
    invs,       \* the ToolInvocation values created so far, with their typestate
    evals,      \* per invocation, what evaluate returned for it
    tokens,     \* every CapabilityToken created so far; live = not yet moved away
    execs,      \* log of the execute calls that ran
    fs,         \* the policy file on disk: its metadata and its content
    loaded      \* how the Policy was obtained (from_str or load) and the calls made

vars == <<file, policy, invs, evals, tokens, execs, fs, loaded>>

\* ------------------------------------------------------------------ bounds
MaxCmdLen == 2      \* longest command string
MaxPatterns == 1    \* longest pattern list of one action
MaxInv == 2         \* invocations one run of the pipeline creates

\* ------------------------------------------------------------------ Option / Result
None == [some |-> FALSE]
Some(x) == [some |-> TRUE, v |-> x]

Ok(x) == [ok |-> TRUE, v |-> x]
Err(e) == [ok |-> FALSE, err |-> e]

\* ------------------------------------------------------------------ Tier
Tiers == {"Observe", "Act", "Commit"}

\* derive(PartialOrd, Ord): the variant order, Observe < Act < Commit
TierRank(t) == CASE t = "Observe" -> 0 [] t = "Act" -> 1 [] t = "Commit" -> 2

\* ------------------------------------------------------------------ strings
Chars == {"l", "r"}

SeqsUpTo(S, n) == UNION {[1..k -> S] : k \in 0..n}

Commands == SeqsUpTo(Chars, MaxCmdLen)

\* ------------------------------------------------------------------ regex
\* The patterns a policy may list: "^l", "r$" and the malformed "[".
PatternPool == {<<"^", "l">>, <<"r", "$">>, <<"[">>}

\* Regex syntax, for the patterns used here: an unclosed bracket is an error.
RegexValid(p) == \A i \in 1..Len(p) : p[i] # "["

AnchoredStart(p) == Len(p) > 0 /\ p[1] = "^"
AnchoredEnd(p) == Len(p) > 0 /\ p[Len(p)] = "$"

\* The literal between the anchors.
Literal(p) ==
    SubSeq(p, IF AnchoredStart(p) THEN 2 ELSE 1,
              IF AnchoredEnd(p) THEN Len(p) - 1 ELSE Len(p))

\* Regex::is_match: the literal occurs in the haystack, at the start if
\* anchored with ^ and up to the end if anchored with $.
RegexIsMatch(p, hay) ==
    LET lit == Literal(p)
    IN \E i \in 1..(Len(hay) + 1) :
          /\ i + Len(lit) - 1 <= Len(hay)
          /\ SubSeq(hay, i, i + Len(lit) - 1) = lit
          /\ AnchoredStart(p) => i = 1
          /\ AnchoredEnd(p) => i + Len(lit) - 1 = Len(hay)

\* Faulty variant of RegexSetBuild: the patterns are stored without compiling.
RegexSetBuild_unchecked(patterns) == Ok(patterns)

\* RegexSetBuilder::new(patterns)...build(): fails on any malformed pattern.
RegexSetBuild(patterns) ==
    IF \A i \in 1..Len(patterns) : RegexValid(patterns[i])
    THEN Ok(patterns)
    ELSE Err("regex")

\* RegexSet::is_match: some pattern of the set matches.
RegexSetIsMatch(set, hay) == \E i \in 1..Len(set) : RegexIsMatch(set[i], hay)

\* ------------------------------------------------------------------ policy document
\* The names a document may give its tools and its actions.
ToolNames == {"bash", "Bash"}
ActionNames == {"read", "write"}

\* enum TierValue, #[serde(rename_all = "lowercase")]
TierValues == {"observe", "act", "commit"}

PatternLists == SeqsUpTo(PatternPool, MaxPatterns)

\* One entry of ToolConfig.actions: the key and the ActionConfig.
ActionEntries ==
    [name : ActionNames, tier : TierValues, patterns : PatternLists]

DistinctNames(s) == \A i, j \in 1..Len(s) : s[i].name = s[j].name => i = j

\* HashMap<String, ActionConfig>, in every iteration order.
ActionMaps ==
    {s \in SeqsUpTo(ActionEntries, Cardinality(ActionNames)) : DistinctNames(s)}

\* One entry of PolicyFile.tools: the key and the ToolConfig.
ToolEntries(names, actionMaps) ==
    [name : names, enabled : BOOLEAN, actions : actionMaps]

\* ------------------------------------------------------------------ compilation
\* match action.tier { TierValue::Observe => Tier::Observe, ... }
TierOf(tv) ==
    CASE tv = "observe" -> "Observe" [] tv = "act" -> "Act" [] tv = "commit" -> "Commit"

PolicyValidation(tool, where, msg) ==
    [kind |-> "PolicyValidation", tool |-> tool, where |-> where, msg |-> msg]

\* Faulty variant of EmptyByTier: the map starts with an entry for Observe.
EmptyByTier_observe_present ==
    [t \in Tiers |-> [present |-> t = "Observe", patterns |-> <<>>]]

\* HashMap<Tier, Vec<String>>::new()
EmptyByTier == [t \in Tiers |-> [present |-> FALSE, patterns |-> <<>>]]

\* by_tier.entry(tier).or_default().extend(patterns)
Extend(by_tier, tier, patterns) ==
    [by_tier EXCEPT ![tier] =
        [present |-> TRUE, patterns |-> by_tier[tier].patterns \o patterns]]

\* Faulty variant of GroupByTier: an action with no patterns is grouped like
\* any other.
RECURSIVE GroupByTier_no_empty_check(_, _, _, _)
GroupByTier_no_empty_check(name, actions, i, by_tier) ==
    IF i > Len(actions) THEN Ok(by_tier)
    ELSE GroupByTier_no_empty_check(name, actions, i + 1,
             Extend(by_tier, TierOf(actions[i].tier), actions[i].patterns))

\* The first loop of compile_tool, from the i-th action on: group the
\* actions by tier, failing on the first action with no patterns.
RECURSIVE GroupByTier(_, _, _, _)
GroupByTier(name, actions, i, by_tier) ==
    IF i > Len(actions) THEN Ok(by_tier)
    ELSE IF actions[i].patterns = <<>>
         THEN Err(PolicyValidation(name, actions[i].name, "patterns must not be empty"))
         ELSE GroupByTier(name, actions, i + 1,
                          Extend(by_tier, TierOf(actions[i].tier), actions[i].patterns))

\* Faulty variant of TierOrder: lowest privilege first.
TierOrderAscending == <<"Observe", "Act", "Commit">>

\* for tier in [Tier::Commit, Tier::Act, Tier::Observe]
TierOrder == <<"Commit", "Act", "Observe">>

\* The second loop of compile_tool, from the i-th tier of TierOrder on.
RECURSIVE CompileTiers(_, _, _, _)
CompileTiers(name, by_tier, i, tiers) ==
    IF i > Len(TierOrder) THEN Ok(tiers)
    ELSE LET tier == TierOrder[i]
         IN IF by_tier[tier].present
            THEN LET regex_set == RegexSetBuild(by_tier[tier].patterns)
                 IN IF regex_set.ok
                    THEN CompileTiers(name, by_tier, i + 1,
                             Append(tiers, [tier |-> tier, patterns |-> regex_set.v]))
                    ELSE Err(PolicyValidation(name, tier, regex_set.err))
            ELSE CompileTiers(name, by_tier, i + 1, tiers)

compile_tool(name, config) ==
    LET grouped == GroupByTier(name, config.actions, 1, EmptyByTier)
    IN IF ~grouped.ok THEN grouped
       ELSE LET tiers == CompileTiers(name, grouped.v, 1, <<>>)
            IN IF ~tiers.ok THEN tiers
               ELSE Ok([name |-> name, enabled |-> config.enabled, tiers |-> tiers.v])

\* Faulty variant of CollectTools: a tool that fails to compile is left out.
RECURSIVE CollectTools_skip_failed(_, _, _)
CollectTools_skip_failed(tools, i, acc) ==
    IF i > Len(tools) THEN Ok(acc)
    ELSE LET t == compile_tool(tools[i].name, tools[i])
         IN CollectTools_skip_failed(tools, i + 1, IF t.ok THEN Append(acc, t.v) ELSE acc)

\* file.tools.into_iter().map(compile_tool).collect::<Result<Vec<_>, _>>()
RECURSIVE CollectTools(_, _, _)
CollectTools(tools, i, acc) ==
    IF i > Len(tools) THEN Ok(acc)
    ELSE LET t == compile_tool(tools[i].name, tools[i])
         IN IF t.ok THEN CollectTools(tools, i + 1, Append(acc, t.v)) ELSE t

\* Policy::from_str, after toml::from_str produced the PolicyFile f.
from_str(f) ==
    LET tools == CollectTools(f.tools, 1, <<>>)
    IN IF tools.ok THEN Ok([tools |-> tools.v]) ELSE tools

\* ------------------------------------------------------------------ policy text and file
\* const MAX_POLICY_FILE_SIZE: u64 = 64 * 1024
MAX_POLICY_FILE_SIZE == 64 * 1024

PolicyLoad(msg) == [kind |-> "PolicyLoad", tool |-> "", where |-> "", msg |-> msg]

\* A policy text: its length in bytes, the level at which it carries a key
\* the schema does not know ("none", "top", "tool" or "action"), and its
\* tools table, the tier of each action as the string the text gives.
Text(size, unknown, tools) == [size |-> size, unknown |-> unknown, tools |-> tools]

\* Faulty variant of DenyUnknownFields: only PolicyFile carries the attribute.
DenyUnknownFields_top_only(level) == level = "top"

\* #[serde(deny_unknown_fields)] on PolicyFile, ToolConfig and ActionConfig
DenyUnknownFields(level) == level \in {"top", "tool", "action"}

\* Deserialize for TierValue, rename_all = "lowercase": the three variant names.
IsTierValue(str) == str \in TierValues

\* toml::from_str::<PolicyFile>(content).map_err(PolicyLoad)
toml_from_str(content) ==
    IF content.unknown # "none" /\ DenyUnknownFields(content.unknown)
    THEN Err(PolicyLoad("unknown field"))
    ELSE IF \E i \in 1..Len(content.tools) :
               \E j \in 1..Len(content.tools[i].actions) :
                   ~IsTierValue(content.tools[i].actions[j].tier)
    THEN Err(PolicyLoad("unknown variant"))
    ELSE Ok([tools |-> content.tools])

\* <Policy as FromStr>::from_str(content), which is also content.parse()
parse(content) ==
    LET f == toml_from_str(content)
    IN IF f.ok THEN from_str(f.v) ELSE f

\* Faulty variant of ExceedsLimit: a file of exactly the limit is refused.
ExceedsLimit_inclusive(len) == len >= MAX_POLICY_FILE_SIZE

\* metadata.len() > MAX_POLICY_FILE_SIZE
ExceedsLimit(len) == len > MAX_POLICY_FILE_SIZE

\* Policy::load(path), for the file f at the path: the result and (calls)
\* what it did to get there, in order.
load(f) ==
    IF ~f.meta_ok
    THEN [result |-> Err(PolicyLoad("cannot read")), calls |-> <<"metadata">>]
    ELSE IF ExceedsLimit(f.len)
    THEN [result |-> Err(PolicyLoad("policy file exceeds byte limit")),
          calls |-> <<"metadata">>]
    ELSE IF ~f.read_ok
    THEN [result |-> Err(PolicyLoad("cannot read")),
          calls |-> <<"metadata", "read_to_string">>]
    ELSE [result |-> parse(f.doc), calls |-> <<"metadata", "read_to_string", "parse">>]

\* ------------------------------------------------------------------ lookup and matching
Min(S) == CHOOSE x \in S : \A y \in S : x <= y

\* ASCII lower case of the names used here.
Lower(name) == IF name = "Bash" THEN "bash" ELSE name

\* Faulty variant of find_tool: the names are compared ignoring case.
find_tool_ignore_case(pol, name) ==
    LET hits == {i \in 1..Len(pol.tools) : Lower(pol.tools[i].name) = Lower(name)}
    IN IF hits = {} THEN None ELSE Some(pol.tools[Min(hits)])

\* self.tools.iter().find(|t| t.name == name)
find_tool(pol, name) ==
    LET hits == {i \in 1..Len(pol.tools) : pol.tools[i].name = name}
    IN IF hits = {} THEN None ELSE Some(pol.tools[Min(hits)])

\* Faulty variant of enabled: the flag is ignored.
enabled_ignored(tool) == TRUE

enabled(tool) == tool.enabled

\* self.tiers.iter().find(|ct| ct.patterns.is_match(command)).map(|ct| ct.tier)
match_tier(tool, command) ==
    LET hits == {i \in 1..Len(tool.tiers) : RegexSetIsMatch(tool.tiers[i].patterns, command)}
    IN IF hits = {} THEN None ELSE Some(tool.tiers[Min(hits)].tier)

\* ------------------------------------------------------------------ invocations
\* serde_json::Value: s is the content of a string, <<>> for the other types.
JAbsent == [type |-> "absent", s |-> <<>>]
JNumber == [type |-> "number", s |-> <<>>]
JArray == [type |-> "array", s |-> <<>>]
JString(s) == [type |-> "string", s |-> s]

\* params, a JSON object: every key it may carry, JAbsent for a key it lacks.
ParamsSet ==
    {[command |-> c, args |-> JAbsent] :
        c \in {JAbsent, JNumber} \cup {JString(s) : s \in Commands}}
    \cup {[command |-> JAbsent, args |-> JArray]}

InvToolNames == ToolNames \cup {"sh"}
InvActionNames == {"execute"}

\* ToolInvocation::new
new(tool, action, params) ==
    [tool |-> tool, action |-> action, params |-> params, state |-> "Proposed"]

Proposals ==
    {new(t, a, p) : t \in InvToolNames, a \in InvActionNames, p \in ParamsSet}

\* Faulty variant of transition: the params are not carried over.
transition_drops_params(self) ==
    [tool |-> self.tool, action |-> self.action,
     params |-> [command |-> JAbsent, args |-> JAbsent], state |-> "Evaluated"]

\* ToolInvocation<Proposed>::transition: the same three fields, typestate Evaluated.
transition(self) ==
    [tool |-> self.tool, action |-> self.action, params |-> self.params,
     state |-> "Evaluated"]

\* ------------------------------------------------------------------ capability token
\* Faulty variant of CapabilityToken::new: the tier is not carried over.
CapabilityToken_new_observe(tier) == [tier |-> "Observe"]

\* CapabilityToken::new
CapabilityToken_new(tier) == [tier |-> tier]

\* ------------------------------------------------------------------ decision
\* Faulty variant of Escalate: the variant carries a token for later approval.
EscalateWithToken == [kind |-> "Escalate", token |-> <<[tier |-> "Commit"]>>]

\* enum Decision: only Allow carries a token.
Allow(token) == [kind |-> "Allow", token |-> <<token>>]
Reject == [kind |-> "Reject", token |-> <<>>]
Escalate == [kind |-> "Escalate", token |-> <<>>]

\* Faulty variant of extract_command: the empty string is not filtered out.
extract_command_unfiltered(params) ==
    IF params.command.type # "string" THEN None ELSE Some(params.command.s)

\* params.get("command").and_then(|v| v.as_str()).filter(|s| !s.is_empty())
extract_command(params) ==
    IF params.command.type = "absent" THEN None
    ELSE IF params.command.type # "string" THEN None
    ELSE IF params.command.s = <<>> THEN None
    ELSE Some(params.command.s)

\* Faulty variant of decide: the engine keeps state, it allows nothing while a
\* token it issued is still outstanding.
decide_one_outstanding(matched) ==
    IF ~matched.some THEN [decision |-> Reject, calls |-> <<"match_tier">>]
    ELSE IF matched.v = "Commit"
    THEN [decision |-> Escalate, calls |-> <<"match_tier">>]
    ELSE IF \E k \in 1..Len(tokens) : tokens[k].live
    THEN [decision |-> Reject, calls |-> <<"match_tier">>]
    ELSE [decision |-> Allow(CapabilityToken_new(matched.v)),
          calls |-> <<"match_tier", "CapabilityToken_new">>]

\* Faulty variant of decide: a Commit match is allowed like any other tier.
decide_commit_allowed(matched) ==
    IF ~matched.some THEN [decision |-> Reject, calls |-> <<"match_tier">>]
    ELSE [decision |-> Allow(CapabilityToken_new(matched.v)),
          calls |-> <<"match_tier", "CapabilityToken_new">>]

\* The arm of evaluate that runs match_tier on an enabled tool:
\*   Some(Tier::Commit) => Escalate, Some(tier) => Allow(new(tier)), None => Reject
decide(matched) ==
    IF ~matched.some THEN [decision |-> Reject, calls |-> <<"match_tier">>]
    ELSE IF matched.v = "Commit"
    THEN [decision |-> Escalate, calls |-> <<"match_tier">>]
    ELSE [decision |-> Allow(CapabilityToken_new(matched.v)),
          calls |-> <<"match_tier", "CapabilityToken_new">>]

\* Faulty variant of evaluate: the invocation's action must be one of the
\* action names the policy document declares for the tool.
evaluate_action_checked(proposal, pol) ==
    LET command == extract_command(proposal.params)
        found == find_tool(pol, proposal.tool)
        arm == decide(match_tier(found.v, command.v))
        declared == \E t \in 1..Len(file.tools) :
                        /\ file.tools[t].name = proposal.tool
                        /\ \E a \in 1..Len(file.tools[t].actions) :
                               file.tools[t].actions[a].name = proposal.action
        r == IF ~command.some
             THEN [decision |-> Reject, calls |-> <<"extract_command">>]
             ELSE IF ~found.some
             THEN [decision |-> Reject, calls |-> <<"extract_command", "find_tool">>]
             ELSE IF ~enabled(found.v)
             THEN [decision |-> Reject,
                   calls |-> <<"extract_command", "find_tool", "enabled">>]
             ELSE IF ~declared
             THEN [decision |-> Reject,
                   calls |-> <<"extract_command", "find_tool", "enabled">>]
             ELSE [decision |-> arm.decision,
                   calls |-> <<"extract_command", "find_tool", "enabled">> \o arm.calls]
    IN [inv |-> transition(proposal), decision |-> r.decision,
        calls |-> Append(r.calls, "transition")]

\* evaluate: the decision, the transitioned invocation, and (calls) the
\* functions the evaluation went through, in order.
evaluate(proposal, pol) ==
    LET command == extract_command(proposal.params)
        found == find_tool(pol, proposal.tool)
        arm == decide(match_tier(found.v, command.v))
        r == IF ~command.some
             THEN [decision |-> Reject, calls |-> <<"extract_command">>]
             ELSE IF ~found.some
             THEN [decision |-> Reject, calls |-> <<"extract_command", "find_tool">>]
             ELSE IF ~enabled(found.v)
             THEN [decision |-> Reject,
                   calls |-> <<"extract_command", "find_tool", "enabled">>]
             ELSE [decision |-> arm.decision,
                   calls |-> <<"extract_command", "find_tool", "enabled">> \o arm.calls]
    IN [inv |-> transition(proposal), decision |-> r.decision,
        calls |-> Append(r.calls, "transition")]

\* ------------------------------------------------------------------ execution
\* ToolResult { output: String::new() }
ToolResult == [output |-> <<>>]

\* Faulty variant of CanExecute: execute exists in every typestate.
CanExecuteAnyState(inv) == inv.state \in {"Proposed", "Evaluated"}

\* impl ToolInvocation<Evaluated>: execute exists in this typestate only.
CanExecute(inv) == inv.state = "Evaluated"

\* Faulty variant of Move: the token is Copy, the caller keeps a usable copy.
MoveCopied(toks, k) == toks

\* A CapabilityToken passed by value is moved: it has no Clone or Copy.
Move(toks, k) == [toks EXCEPT ![k].live = FALSE]

\* ToolInvocation<Evaluated>::execute(self, _token)
execute(self, token) == Ok(ToolResult)

\* The Tool implementations whose execute the body of
\* ToolInvocation<Evaluated>::execute calls, in order: it is a stub, it calls none.
execute_dispatch(self, token) == <<>>

\* <BashTool as Tool>::name and ::execute(&self, _action, _params, _token)
BashTool_name == "bash"
BashTool_execute(action, params, token) == Ok(ToolResult)

\* ------------------------------------------------------------------ initial states
NotEvaluated == [done |-> FALSE, decision |-> Reject, calls |-> <<>>]

\* No file is involved: the Policy comes from a text already deserialized.
NoFile ==
    [meta_ok |-> FALSE, len |-> 0, read_ok |-> FALSE, doc |-> Text(0, "none", <<>>)]

InitWith(files) ==
    /\ file \in files
    /\ policy = from_str(file)
    /\ invs = <<>>
    /\ evals = <<>>
    /\ tokens = <<>>
    /\ execs = <<>>
    /\ fs = NoFile
    /\ loaded = [op |-> "from_str", calls |-> <<>>]

\* ------------------------------------------------------------------ actions
\* The producer builds a Proposed invocation.
New(p, limit) ==
    /\ Len(invs) < limit
    /\ invs' = Append(invs, p)
    /\ evals' = Append(evals, NotEvaluated)
    /\ UNCHANGED <<file, policy, tokens, execs, fs, loaded>>

\* evaluate(invs[i], &policy): the Proposed value is moved in, the Evaluated
\* value and the Decision come back; a token in the Decision is now the caller's.
Evaluate(i) ==
    /\ policy.ok
    /\ invs[i].state = "Proposed"
    /\ LET r == evaluate(invs[i], policy.v)
       IN /\ invs' = [invs EXCEPT ![i] = r.inv]
          /\ evals' = [evals EXCEPT ![i] =
                          [done |-> TRUE, decision |-> r.decision, calls |-> r.calls]]
          /\ tokens' = tokens \o
                 [j \in 1..Len(r.decision.token) |->
                     [tier |-> r.decision.token[j].tier, origin |-> i, live |-> TRUE]]
    /\ UNCHANGED <<file, policy, execs, fs, loaded>>

\* invs[i].execute(tokens[k]): both are moved into the call.
Execute(i, k) ==
    /\ CanExecute(invs[i])
    /\ tokens[k].live
    /\ invs' = [invs EXCEPT ![i].state = "Executed"]
    /\ tokens' = Move(tokens, k)
    /\ execs' = Append(execs,
           [via |-> "ToolInvocation", inv |-> i, token |-> k, tool |-> invs[i].tool,
            action |-> invs[i].action, params |-> invs[i].params,
            ran |-> execute_dispatch(invs[i], tokens[k]),
            result |-> execute(invs[i], tokens[k])])
    /\ UNCHANGED <<file, policy, evals, fs, loaded>>

\* BashTool.execute(action, params, tokens[k]): the token is moved into the call.
ToolExecute(action, params, k) ==
    /\ tokens[k].live
    /\ tokens' = Move(tokens, k)
    /\ execs' = Append(execs,
           [via |-> "Tool", inv |-> 0, token |-> k, tool |-> BashTool_name,
            action |-> action, params |-> params,
            ran |-> <<BashTool_name>>,
            result |-> BashTool_execute(action, params, tokens[k])])
    /\ UNCHANGED <<file, policy, invs, evals, fs, loaded>>

\* ------------------------------------------------------------------ the pipeline
ReadL(tier) == [name |-> "read", tier |-> tier, patterns |-> <<<<"^", "l">>>>]
WriteR(tier) == [name |-> "write", tier |-> tier, patterns |-> <<<<"r", "$">>>>]

\* The shape of the tests' DEFAULT_POLICY: one enabled tool, bash, whose read
\* action is Observe or Act and whose write action is Commit.
PipelineFiles ==
    {[tools |-> <<[name |-> "bash", enabled |-> TRUE,
                   actions |-> <<ReadL(t), WriteR("commit")>>]>>] :
        t \in {"observe", "act"}}

PipelineParams ==
    {[command |-> JString(c), args |-> JAbsent] :
        c \in {<<"l">>, <<"l", "r">>, <<"r", "l">>}}

PipelineProposals == {new("bash", "execute", p) : p \in PipelineParams}

Init == InitWith(PipelineFiles)

Next ==
    \/ \E p \in PipelineProposals : New(p, MaxInv)
    \/ \E i \in 1..Len(invs) : Evaluate(i)
    \/ \E i \in 1..Len(invs), k \in 1..Len(tokens) : Execute(i, k)
    \/ \E p \in PipelineParams, k \in 1..Len(tokens) : ToolExecute("execute", p, k)

Spec == Init /\ [][Next]_vars

\* ------------------------------------------------------------------ the decision function
\* The tool entries that compile: the engine runs only with a Policy.
CompilingEntries(names, actionMaps) ==
    {e \in ToolEntries(names, actionMaps) : compile_tool(e.name, e).ok}

\* Every compiling policy document over the names, tiers and pattern lists
\* above that names the tool bash, with or without a second tool, Bash, that
\* has one Observe action, in either order.
EvalToolLists ==
    LET main == CompilingEntries({"bash"}, ActionMaps)
        other == CompilingEntries({"Bash"}, {<<ReadL("observe")>>})
    IN {<<>>} \cup {<<m>> : m \in main} \cup {<<o>> : o \in other}
       \cup {<<m, o>> : m \in main, o \in other}
       \cup {<<o, m>> : m \in main, o \in other}

EvalFiles == {[tools |-> s] : s \in EvalToolLists}

InitEval == InitWith(EvalFiles)

NextEval ==
    \/ \E p \in Proposals : New(p, 1)
    \/ \E i \in 1..Len(invs) : Evaluate(i)

SpecEval == InitEval /\ [][NextEval]_vars

\* ------------------------------------------------------------------ loading a policy
Has(seq, x) == \E n \in 1..Len(seq) : seq[n] = x

\* Policy::from_str(text) for the text of the file, whoever read it.
Parse ==
    /\ loaded.op = "none"
    /\ policy' = parse(fs.doc)
    /\ file' = (IF toml_from_str(fs.doc).ok THEN toml_from_str(fs.doc).v ELSE file)
    /\ loaded' = [op |-> "from_str", calls |-> <<"parse">>]
    /\ UNCHANGED <<invs, evals, tokens, execs, fs>>

\* Policy::load(path) for the file at the path.
Load ==
    /\ loaded.op = "none"
    /\ LET r == load(fs)
       IN /\ policy' = r.result
          /\ file' = (IF Has(r.calls, "parse") /\ toml_from_str(fs.doc).ok
                      THEN toml_from_str(fs.doc).v ELSE file)
          /\ loaded' = [op |-> "load", calls |-> r.calls]
    /\ UNCHANGED <<invs, evals, tokens, execs, fs>>

\* The strings a text may give as a tier: the three tiers, one of them in
\* another case, and a name that is no tier.
RawTierStrings == TierValues \cup {"Observe", "superadmin"}

\* Texts that deserialize, over every pattern list, also the empty and the
\* malformed ones: the tool bash with any actions, with or without a second
\* tool, Bash, that compiles or not, in either order.
CompileTexts ==
    LET main == ToolEntries({"bash"}, ActionMaps)
        other == [name : {"Bash"}, enabled : {TRUE},
                  actions : {<<[name |-> "read", tier |-> "observe", patterns |-> l]>> :
                                 l \in {<<<<"^", "l">>>>, <<>>, <<<<"[">>>>}}]
        lists == {<<>>} \cup {<<m>> : m \in main} \cup {<<o>> : o \in other}
                 \cup {<<m, o>> : m \in main, o \in other}
                 \cup {<<o, m>> : m \in main, o \in other}
    IN {Text(1024, "none", l) : l \in lists}

\* Texts of every size around the limit, with or without an unknown key at
\* one of the three levels, and with every tier string.
SchemaTexts ==
    LET maps == {<<>>}
                \cup {<<[name |-> "read", tier |-> t, patterns |-> <<<<"^", "l">>>>]>> :
                         t \in RawTierStrings}
                \cup {<<ReadL("observe"),
                        [name |-> "write", tier |-> t, patterns |-> <<<<"r", "$">>>>]>> :
                         t \in RawTierStrings}
        lists == {<<>>} \cup {<<[name |-> "bash", enabled |-> TRUE, actions |-> a]>> :
                                 a \in maps}
        levels(l) == {"none", "top"}
                     \cup (IF l # <<>> THEN {"tool"} ELSE {})
                     \cup (IF l # <<>> /\ l[1].actions # <<>> THEN {"action"} ELSE {})
    IN UNION {{Text(size, u, l) :
                  size \in {1024, MAX_POLICY_FILE_SIZE, MAX_POLICY_FILE_SIZE + 1},
                  u \in levels(l)} : l \in lists}

\* A file that reports its true size and can be read.
Regular(doc) == [meta_ok |-> TRUE, len |-> doc.size, read_ok |-> TRUE, doc |-> doc]

\* The files at the path: regular ones, and ones whose metadata or content
\* cannot be read or whose reported size is any size around the limit.
LoadFiles ==
    {Regular(d) : d \in CompileTexts}
    \cup [meta_ok : BOOLEAN,
          len : {1024, MAX_POLICY_FILE_SIZE, MAX_POLICY_FILE_SIZE + 1},
          read_ok : BOOLEAN,
          doc : SchemaTexts]

NotLoaded == Err([kind |-> "NotLoaded", tool |-> "", where |-> "", msg |-> ""])

InitLoad ==
    /\ fs \in LoadFiles
    /\ file = [tools |-> <<>>]
    /\ policy = NotLoaded
    /\ loaded = [op |-> "none", calls |-> <<>>]
    /\ invs = <<>>
    /\ evals = <<>>
    /\ tokens = <<>>
    /\ execs = <<>>

NextLoad == Parse \/ Load

SpecLoad == InitLoad /\ [][NextLoad]_vars

\* ------------------------------------------------------------------ what the document declares
\* The document's entry for the tool of that exact name, if it has one.
HasEntry(name) == \E j \in 1..Len(file.tools) : file.tools[j].name = name
Entry(name) == file.tools[CHOOSE j \in 1..Len(file.tools) : file.tools[j].name = name]

\* Some action the entry declares at this tier lists a pattern the command matches.
Declares(entry, tier, command) ==
    \E a \in 1..Len(entry.actions) :
        /\ TierOf(entry.actions[a].tier) = tier
        /\ \E q \in 1..Len(entry.actions[a].patterns) :
              RegexIsMatch(entry.actions[a].patterns[q], command)

MatchingTiers(entry, command) == {t \in Tiers : Declares(entry, t, command)}

MaxTier(S) == CHOOSE t \in S : \A u \in S : TierRank(u) <= TierRank(t)

\* The invocation carries a command evaluate can extract.
HasCommand(inv) == inv.params.command.type = "string" /\ inv.params.command.s # <<>>
CommandOf(inv) == inv.params.command.s

TokensFrom(i) == {k \in 1..Len(tokens) : tokens[k].origin = i}

\* ------------------------------------------------------------------ claims: decision function
\* C1: whenever the tool is found and enabled and match_tier on the command
\* returns Commit, evaluate returns Escalate, never Allow, and issues no token.
C1_CommitEscalates ==
    \A i \in 1..Len(invs) :
        evals[i].done =>
            LET command == extract_command(invs[i].params)
                found == find_tool(policy.v, invs[i].tool)
            IN (/\ command.some
                /\ found.some
                /\ enabled(found.v)
                /\ match_tier(found.v, command.v) = Some("Commit"))
               => /\ evals[i].decision.kind = "Escalate"
                  /\ evals[i].decision.token = <<>>
                  /\ TokensFrom(i) = {}

\* An evaluated command that matches a Commit pattern and a lower-tier pattern
\* of its enabled tool, and was escalated.
C1_Witness ==
    \E i \in 1..Len(invs) :
        /\ evals[i].done
        /\ HasCommand(invs[i])
        /\ HasEntry(invs[i].tool)
        /\ Entry(invs[i].tool).enabled
        /\ {"Commit", "Observe"} \subseteq MatchingTiers(Entry(invs[i].tool), CommandOf(invs[i]))
        /\ evals[i].decision.kind = "Escalate"

\* C6: tier fidelity: the token of an Allow carries exactly the tier match_tier
\* returned, which is Observe or Act and is the highest tier at which the
\* document declares a matching pattern; no lower tier is ever carried.
C6_TierFidelity ==
    \A i \in 1..Len(invs) :
        (evals[i].done /\ evals[i].decision.kind = "Allow") =>
            LET t == evals[i].decision.token[1].tier
                found == find_tool(policy.v, invs[i].tool)
                S == MatchingTiers(Entry(invs[i].tool), CommandOf(invs[i]))
            IN /\ Len(evals[i].decision.token) = 1
               /\ t \in {"Observe", "Act"}
               /\ HasCommand(invs[i]) /\ found.some
               /\ match_tier(found.v, CommandOf(invs[i])) = Some(t)
               /\ HasEntry(invs[i].tool)
               /\ t \in S
               /\ \A t2 \in S : TierRank(t2) <= TierRank(t)
               /\ \A k \in TokensFrom(i) : tokens[k].tier = t

\* An allowed command whose only matching patterns are at tier Act.
C6_Witness ==
    \E i \in 1..Len(invs) :
        /\ evals[i].done
        /\ evals[i].decision.kind = "Allow"
        /\ MatchingTiers(Entry(invs[i].tool), CommandOf(invs[i])) = {"Act"}
        /\ \E k \in TokensFrom(i) : tokens[k].tier = "Act"

\* C7: highest privilege wins: for every compiled tool and every command,
\* match_tier returns the maximum of the tiers at which some action of the
\* tool declares a matching pattern, whatever the order of the actions, and
\* returns nothing iff no tier matches.
C7_HighestPrivilegeWins ==
    policy.ok =>
        \A i \in 1..Len(invs) :
            invs[i].params.command.type = "string" =>
                \A j \in 1..Len(policy.v.tools) :
                    LET tool == policy.v.tools[j]
                        S == MatchingTiers(Entry(tool.name), CommandOf(invs[i]))
                        m == match_tier(tool, CommandOf(invs[i]))
                    IN /\ HasEntry(tool.name)
                       /\ (S = {}) <=> ~m.some
                       /\ (S # {}) => m = Some(MaxTier(S))

\* An evaluation that ran match_tier on a command matching at two tiers,
\* Act among them, one of them through the second action of the tool.
C7_Witness ==
    \E i \in 1..Len(invs) :
        /\ evals[i].done
        /\ Has(evals[i].calls, "match_tier")
        /\ LET entry == Entry(invs[i].tool)
               S == MatchingTiers(entry, CommandOf(invs[i]))
           IN /\ Cardinality(S) = 2
              /\ "Act" \in S
              /\ Len(entry.actions) = 2
              /\ TierRank(TierOf(entry.actions[1].tier)) > TierRank(TierOf(entry.actions[2].tier))
              /\ find_tool(policy.v, invs[i].tool).v.tiers[1].tier = MaxTier(S)

\* C8: a tool whose entry has enabled = false yields Reject for every
\* command, also for commands matching one of its patterns; never Allow or
\* Escalate, and no token.
C8_DisabledToolRejects ==
    \A i \in 1..Len(invs) :
        (evals[i].done /\ HasEntry(invs[i].tool) /\ ~Entry(invs[i].tool).enabled) =>
            /\ evals[i].decision.kind = "Reject"
            /\ TokensFrom(i) = {}

\* A rejected command that matches an Observe pattern of its disabled tool.
C8_Witness ==
    \E i \in 1..Len(invs) :
        /\ evals[i].done
        /\ HasEntry(invs[i].tool)
        /\ ~Entry(invs[i].tool).enabled
        /\ HasCommand(invs[i])
        /\ "Observe" \in MatchingTiers(Entry(invs[i].tool), CommandOf(invs[i]))
        /\ evals[i].decision.kind = "Reject"

\* C9: if no tool of the policy has exactly the invocation's tool name
\* (compared case-sensitively), evaluate returns Reject for every command; a
\* policy with no tools rejects everything.
C9_UnknownToolRejects ==
    \A i \in 1..Len(invs) :
        (evals[i].done /\ ~HasEntry(invs[i].tool)) =>
            /\ evals[i].decision.kind = "Reject"
            /\ TokensFrom(i) = {}

\* A rejected invocation whose tool name differs only in case from the name
\* of an enabled tool that has a pattern matching the command.
C9_Witness ==
    \E i \in 1..Len(invs) :
        /\ evals[i].done
        /\ ~HasEntry(invs[i].tool)
        /\ HasCommand(invs[i])
        /\ \E j \in 1..Len(file.tools) :
              /\ Lower(file.tools[j].name) = Lower(invs[i].tool)
              /\ file.tools[j].enabled
              /\ MatchingTiers(file.tools[j], CommandOf(invs[i])) # {}
        /\ evals[i].decision.kind = "Reject"

\* C10: if params has no "command" entry, or it is not a string, or it is
\* the empty string, evaluate returns Reject without looking up the tool and
\* without running match_tier, whatever the policy contains.
C10_NoCommandRejects ==
    \A i \in 1..Len(invs) :
        (evals[i].done /\ ~HasCommand(invs[i])) =>
            /\ evals[i].decision.kind = "Reject"
            /\ ~Has(evals[i].calls, "find_tool")
            /\ ~Has(evals[i].calls, "match_tier")
            /\ TokensFrom(i) = {}

\* A rejected invocation with the empty command, for an enabled tool of the policy.
C10_Witness ==
    \E i \in 1..Len(invs) :
        /\ evals[i].done
        /\ invs[i].params.command = JString(<<>>)
        /\ HasEntry(invs[i].tool)
        /\ Entry(invs[i].tool).enabled
        /\ Entry(invs[i].tool).actions # <<>>
        /\ evals[i].decision.kind = "Reject"

\* ------------------------------------------------------------------ claims: pipeline
ExecsOf(i, log) ==
    {e \in 1..Len(log) : log[e].via = "ToolInvocation" /\ log[e].inv = i}

\* C2: each execute of an Evaluated invocation consumes the token issued by
\* that invocation's own evaluation, so an invocation whose evaluation
\* returned Reject or Escalate is never executed.
C2_ExecuteUsesOwnToken ==
    \A e \in 1..Len(execs) :
        execs[e].via = "ToolInvocation" =>
            /\ tokens[execs[e].token].origin = execs[e].inv
            /\ evals[execs[e].inv].decision.kind = "Allow"

\* C3: every invocation goes Proposed -> Evaluated -> executed, in that order
\* and each step at most once: it is created Proposed and unevaluated, only
\* an evaluation (ending in transition) makes it Evaluated, only an Evaluated
\* invocation is executed, and an executed one is never touched again.
C3_Lifecycle ==
    [][/\ Len(invs') >= Len(invs)
       /\ \A i \in 1..Len(invs') :
             IF i > Len(invs)
             THEN invs'[i].state = "Proposed" /\ ~evals'[i].done /\ ExecsOf(i, execs') = {}
             ELSE /\ invs'[i].tool = invs[i].tool
                  /\ invs'[i].action = invs[i].action
                  /\ invs'[i].params = invs[i].params
                  /\ invs[i].state = "Proposed" =>
                        /\ invs'[i].state \in {"Proposed", "Evaluated"}
                        /\ ~evals[i].done
                  /\ invs[i].state = "Evaluated" =>
                        invs'[i].state \in {"Evaluated", "Executed"}
                  /\ invs[i].state = "Executed" => invs'[i].state = "Executed"
                  /\ (invs'[i].state = "Evaluated" /\ invs[i].state # "Evaluated") =>
                        /\ evals'[i].done
                        /\ evals'[i].calls[Len(evals'[i].calls)] = "transition"
                  /\ evals[i].done => evals'[i] = evals[i]
                  /\ invs'[i].state # "Proposed" => evals'[i].done
                  /\ Cardinality(ExecsOf(i, execs')) =
                        (IF invs'[i].state = "Executed" THEN 1 ELSE 0)
      ]_vars

\* One invocation has been evaluated and executed while another is still Proposed.
C3_Witness ==
    \E i, j \in 1..Len(invs) :
        /\ invs[i].state = "Executed"
        /\ evals[i].done
        /\ ExecsOf(i, execs) # {}
        /\ invs[j].state = "Proposed"

\* C4: a token is single-use: no two execute calls (ToolInvocation::execute
\* or Tool::execute) were given the same token, a token given to one is no
\* longer usable, and there are at most as many executions as tokens issued.
C4_TokenSingleUse ==
    /\ \A e1, e2 \in 1..Len(execs) : execs[e1].token = execs[e2].token => e1 = e2
    /\ \A e \in 1..Len(execs) :
          /\ execs[e].token \in 1..Len(tokens)
          /\ ~tokens[execs[e].token].live
    /\ Len(execs) <= Len(tokens)

\* Two tokens were issued and both consumed, one by each kind of execute.
C4_Witness ==
    /\ Len(tokens) = 2
    /\ Len(execs) = 2
    /\ \E e1, e2 \in 1..Len(execs) :
          execs[e1].via = "ToolInvocation" /\ execs[e2].via = "Tool"
    /\ \A k \in 1..Len(tokens) : ~tokens[k].live

\* C5: tokens exist only through evaluate returning Allow: every token was
\* issued by an evaluation whose decision is the Allow carrying it, each Allow
\* issued exactly one, a Reject or Escalate none, and no other step made one.
C5_TokensOnlyFromAllow ==
    /\ \A k \in 1..Len(tokens) :
          /\ tokens[k].origin \in 1..Len(invs)
          /\ evals[tokens[k].origin].done
          /\ evals[tokens[k].origin].decision.kind = "Allow"
          /\ evals[tokens[k].origin].decision.token = <<[tier |-> tokens[k].tier]>>
    /\ \A i \in 1..Len(invs) :
          Cardinality(TokensFrom(i)) =
              (IF evals[i].done /\ evals[i].decision.kind = "Allow" THEN 1 ELSE 0)

\* An Allow that issued its one token and an Escalate that issued none, after
\* an execute call consumed the token.
C5_Witness ==
    \E i, j \in 1..Len(invs) :
        /\ evals[i].done /\ evals[i].decision.kind = "Allow"
        /\ Cardinality(TokensFrom(i)) = 1
        /\ evals[j].done /\ evals[j].decision.kind = "Escalate"
        /\ TokensFrom(j) = {}
        /\ Len(tokens) = 1
        /\ Len(execs) = 1

\* ------------------------------------------------------------------ C11
SameInput(i, j) ==
    /\ invs[i].tool = invs[j].tool
    /\ invs[i].action = invs[j].action
    /\ invs[i].params = invs[j].params

\* C11: evaluate is deterministic and leaves the policy unchanged. No step of
\* the pipeline changes the policy or its document, and an evaluation changes
\* no decision already made; whenever an invocation is evaluated, its decision
\* is the one of every earlier evaluation of the same (tool, action, params)
\* against the policy, however many evaluations and executions ran in between.
C11_EvaluateDeterministic ==
    [][/\ policy' = policy
       /\ file' = file
       /\ \A i \in 1..Len(evals) : evals[i].done => evals'[i] = evals[i]
       /\ \A i \in 1..Len(evals) :
              ~evals[i].done /\ evals'[i].done =>
                  \A j \in 1..Len(evals) :
                      evals[j].done /\ SameInput(i, j) =>
                          /\ evals'[i].decision = evals[j].decision
                          /\ evals'[i].calls = evals[j].calls]_vars

\* Witness: the same input was evaluated twice and allowed twice, and the
\* token of the first evaluation was used by an execute in between.
C11_Witness ==
    \E i, j \in 1..Len(evals) :
        /\ i < j
        /\ evals[i].done /\ evals[j].done
        /\ SameInput(i, j)
        /\ evals[i].decision.kind = "Allow"
        /\ evals[j].decision = evals[i].decision
        /\ \E k \in TokensFrom(i), l \in TokensFrom(j) : ~tokens[k].live /\ tokens[l].live

\* ------------------------------------------------------------------ C12
\* C12: parsing a policy from text rejects every document larger than 64 KiB
\* before any parsing is attempted: after Policy::from_str on a text of more
\* than MAX_POLICY_FILE_SIZE bytes there is no Policy.
C12_OversizedTextRejected ==
    loaded.op = "from_str" /\ fs.doc.size > MAX_POLICY_FILE_SIZE => ~policy.ok

\* ------------------------------------------------------------------ C13
\* The text was handed to the parser: by from_str, or by load after the read.
Parsed == loaded.op = "from_str" \/ Has(loaded.calls, "parse")

UnknownKey(doc) == doc.unknown \in {"top", "tool", "action"}

BadTierString(doc) ==
    \E i \in 1..Len(doc.tools) : \E j \in 1..Len(doc.tools[i].actions) :
        doc.tools[i].actions[j].tier \notin {"observe", "act", "commit"}

\* C13: parsing fails closed with a PolicyLoad error, and produces no Policy,
\* for any document with an unknown key at the top level, in a tool entry or
\* in an action entry, or with a tier string other than exactly "observe",
\* "act" or "commit".
C13_UnknownKeyOrTierFailsLoad ==
    Parsed /\ (UnknownKey(fs.doc) \/ BadTierString(fs.doc)) =>
        ~policy.ok /\ policy.err.kind = "PolicyLoad"

\* Witness: a text whose only fault is an unknown key in an action entry was
\* parsed and refused with a PolicyLoad error.
C13_Witness ==
    /\ Parsed
    /\ ~policy.ok /\ policy.err.kind = "PolicyLoad"
    /\ fs.doc.unknown = "action" /\ ~BadTierString(fs.doc)

\* ------------------------------------------------------------------ C14
\* The text deserializes into a PolicyFile: compilation is reached.
Deserializes(doc) == ~UnknownKey(doc) /\ ~BadTierString(doc)

Malformed(action) == \E n \in 1..Len(action.patterns) : ~RegexValid(action.patterns[n])

HasMalformed(doc) ==
    \E i \in 1..Len(doc.tools) : \E j \in 1..Len(doc.tools[i].actions) :
        Malformed(doc.tools[i].actions[j])

HasEmptyList(doc) ==
    \E i \in 1..Len(doc.tools) : \E j \in 1..Len(doc.tools[i].actions) :
        doc.tools[i].actions[j].patterns = <<>>

\* The error names a tool and a tier of it that holds a malformed pattern.
NamesOffendingTier(doc, e) ==
    \E i \in 1..Len(doc.tools) : \E j \in 1..Len(doc.tools[i].actions) :
        /\ doc.tools[i].name = e.tool
        /\ TierOf(doc.tools[i].actions[j].tier) = e.where
        /\ Malformed(doc.tools[i].actions[j])

\* The error names a tool and an action of it whose pattern list is empty.
NamesEmptyAction(doc, e) ==
    \E i \in 1..Len(doc.tools) : \E j \in 1..Len(doc.tools[i].actions) :
        /\ doc.tools[i].name = e.tool
        /\ doc.tools[i].actions[j].name = e.where
        /\ doc.tools[i].actions[j].patterns = <<>>

\* C14, as stated: a malformed regular expression in any action of any tool
\* makes compilation fail with a PolicyValidation error whose message names
\* the offending tool and tier.
C14_MalformedNamesToolAndTier ==
    Parsed /\ Deserializes(fs.doc) /\ HasMalformed(fs.doc) =>
        /\ ~policy.ok
        /\ policy.err.kind = "PolicyValidation"
        /\ NamesOffendingTier(fs.doc, policy.err)

\* C14, amended: a malformed regular expression in any action of any tool
\* makes compilation fail with a PolicyValidation error, never PolicyLoad. The
\* message names a tool and tier holding a malformed pattern, unless an action
\* with an empty pattern list is reported first: then the message names that
\* tool and action. Without an empty pattern list in the document the message
\* always names an offending tool and tier.
C14_MalformedFailsValidation ==
    Parsed /\ Deserializes(fs.doc) /\ HasMalformed(fs.doc) =>
        /\ ~policy.ok
        /\ policy.err.kind = "PolicyValidation"
        /\ \/ NamesOffendingTier(fs.doc, policy.err) /\ policy.err.msg = "regex"
           \/ NamesEmptyAction(fs.doc, policy.err)
                  /\ policy.err.msg = "patterns must not be empty"
        /\ ~HasEmptyList(fs.doc) => NamesOffendingTier(fs.doc, policy.err)

\* Witness: a document of two tools, the second with a malformed pattern and
\* the first without fault, was refused with an error naming the second tool
\* and the tier of the malformed pattern.
C14_Witness ==
    /\ Parsed /\ Deserializes(fs.doc)
    /\ Len(fs.doc.tools) = 2
    /\ ~HasMalformed(Text(fs.doc.size, "none", <<fs.doc.tools[1]>>))
    /\ ~HasEmptyList(fs.doc)
    /\ ~policy.ok /\ policy.err.kind = "PolicyValidation"
    /\ policy.err.tool = fs.doc.tools[2].name
    /\ NamesOffendingTier(fs.doc, policy.err)

\* ------------------------------------------------------------------ C15
\* C15: any action whose pattern list is empty makes compilation fail with a
\* PolicyValidation error, so every CompiledTier of every successfully
\* compiled Policy has a non-empty pattern set.
C15_EmptyPatternsRejected ==
    /\ Parsed /\ Deserializes(fs.doc) /\ HasEmptyList(fs.doc) =>
           ~policy.ok /\ policy.err.kind = "PolicyValidation"
    /\ policy.ok =>
           \A i \in 1..Len(policy.v.tools) : \A n \in 1..Len(policy.v.tools[i].tiers) :
               policy.v.tools[i].tiers[n].patterns # <<>>

\* Witness: a document whose only fault is an action without patterns, placed
\* after an action with patterns, was refused with the error naming it.
C15_Witness ==
    /\ Parsed /\ Deserializes(fs.doc)
    /\ ~HasMalformed(fs.doc)
    /\ \E i \in 1..Len(fs.doc.tools) :
           /\ Len(fs.doc.tools[i].actions) = 2
           /\ fs.doc.tools[i].actions[1].patterns # <<>>
           /\ fs.doc.tools[i].actions[2].patterns = <<>>
    /\ ~policy.ok /\ policy.err.kind = "PolicyValidation"
    /\ NamesEmptyAction(fs.doc, policy.err)

\* ------------------------------------------------------------------ C16
\* C16: evaluate is total and always transitions. For every Proposed
\* invocation and policy, evaluate returns exactly one Decision, which is
\* Allow, Reject or Escalate, and an Evaluated invocation with the tool,
\* action and params of the proposal; a step that evaluates an invocation
\* leaves it Evaluated with these fields, whatever the decision, and the
\* transition is the last thing the evaluation does.
C16_EvaluateTotalAndTransitions ==
    [][\A i \in 1..Len(invs) :
           invs[i].state = "Proposed" =>
               LET r == evaluate(invs[i], policy.v)
               IN /\ r.decision.kind \in {"Allow", "Reject", "Escalate"}
                  /\ r.inv.state = "Evaluated"
                  /\ r.inv.tool = invs[i].tool
                  /\ r.inv.action = invs[i].action
                  /\ r.inv.params = invs[i].params
                  /\ r.calls[Len(r.calls)] = "transition"
                  /\ invs'[i] # invs[i] =>
                         /\ invs'[i] = [invs[i] EXCEPT !.state = "Evaluated"]
                         /\ evals'[i].done
                         /\ evals'[i].decision = r.decision]_vars

\* Witness: a proposal that was rejected is Evaluated all the same, with its
\* command still in its params.
C16_Witness ==
    \E i \in 1..Len(invs) :
        /\ evals[i].done
        /\ evals[i].decision.kind = "Reject"
        /\ invs[i].state = "Evaluated"
        /\ HasCommand(invs[i])
        /\ evals[i].calls[Len(evals[i].calls)] = "transition"

\* ------------------------------------------------------------------ C17
TiersDeclared(entry) ==
    {TierOf(entry.actions[a].tier) : a \in 1..Len(entry.actions)}

\* C17: in every successfully compiled tool the tier list is in strictly
\* descending privilege order (Commit, then Act, then Observe), so each tier
\* appears at most once, and a tier has an entry iff at least one action of
\* that tool declares that tier.
C17_TierListOrderedAndExact ==
    policy.ok =>
        /\ Len(policy.v.tools) = Len(file.tools)
        /\ \A i \in 1..Len(policy.v.tools) :
               LET tiers == policy.v.tools[i].tiers
               IN /\ policy.v.tools[i].name = file.tools[i].name
                  /\ \A m, n \in 1..Len(tiers) :
                         m < n => TierRank(tiers[m].tier) > TierRank(tiers[n].tier)
                  /\ {tiers[n].tier : n \in 1..Len(tiers)} = TiersDeclared(file.tools[i])

\* Witness: a tool whose actions declare Observe first and Commit second was
\* loaded from a file and compiled to the tier list Commit, Observe.
C17_Witness ==
    /\ loaded.op = "load"
    /\ policy.ok
    /\ \E i \in 1..Len(policy.v.tools) :
           /\ Len(file.tools[i].actions) = 2
           /\ file.tools[i].actions[1].tier = "observe"
           /\ file.tools[i].actions[2].tier = "commit"
           /\ Len(policy.v.tools[i].tiers) = 2
           /\ policy.v.tools[i].tiers[1].tier = "Commit"
           /\ policy.v.tools[i].tiers[2].tier = "Observe"

\* ------------------------------------------------------------------ C18
\* The tool entry cannot compile: an empty pattern list or a malformed pattern.
Faulty(tool) ==
    \E j \in 1..Len(tool.actions) :
        tool.actions[j].patterns = <<>> \/ Malformed(tool.actions[j])

\* C18: policy construction is all-or-nothing. If any single tool entry fails
\* to compile, parsing returns an error and no Policy is produced; a Policy
\* holds one compiled tool for every tool entry of the document.
C18_AllOrNothing ==
    /\ Parsed /\ Deserializes(fs.doc)
           /\ (\E i \in 1..Len(fs.doc.tools) : Faulty(fs.doc.tools[i])) =>
           ~policy.ok
    /\ policy.ok =>
           /\ Len(policy.v.tools) = Len(file.tools)
           /\ \A i \in 1..Len(file.tools) : ~Faulty(file.tools[i])

\* Witness: of two tool entries the first to be compiled is without fault and
\* the second has an empty pattern list; no Policy was produced.
C18_Witness ==
    /\ Parsed /\ Deserializes(fs.doc)
    /\ Len(fs.doc.tools) = 2
    /\ ~Faulty(fs.doc.tools[1])
    /\ fs.doc.tools[1].actions # <<>>
    /\ \E j \in 1..Len(fs.doc.tools[2].actions) : fs.doc.tools[2].actions[j].patterns = <<>>
    /\ ~policy.ok

\* ------------------------------------------------------------------ C19
\* C19: Policy::load checks the file size from metadata before reading any
\* content. A file whose reported size exceeds 65536 bytes yields a PolicyLoad
\* error with no content read, a file of 65536 bytes or less passes the size
\* check and its content is read, and a file whose metadata cannot be read
\* yields a PolicyLoad error.
C19_SizeCheckedBeforeRead ==
    loaded.op = "load" =>
        /\ loaded.calls[1] = "metadata"
        /\ ~fs.meta_ok =>
               /\ ~policy.ok /\ policy.err.kind = "PolicyLoad"
               /\ loaded.calls = <<"metadata">>
        /\ fs.meta_ok /\ fs.len > 65536 =>
               /\ ~policy.ok /\ policy.err.kind = "PolicyLoad"
               /\ ~Has(loaded.calls, "read_to_string")
               /\ ~Has(loaded.calls, "parse")
        /\ fs.meta_ok /\ fs.len <= 65536 =>
               /\ Len(loaded.calls) >= 2
               /\ loaded.calls[2] = "read_to_string"
               /\ fs.read_ok => Has(loaded.calls, "parse")

\* Witness: a file reporting 65537 bytes, whose text would have given a
\* Policy, was refused by load without being read.
C19_Witness ==
    /\ loaded.op = "load"
    /\ fs.meta_ok /\ fs.read_ok
    /\ fs.len = 65537
    /\ parse(fs.doc).ok
    /\ ~policy.ok /\ policy.err.kind = "PolicyLoad"
    /\ loaded.calls = <<"metadata">>

\* ------------------------------------------------------------------ C20
\* C20: ToolInvocation<Evaluated>::execute(token) consumes both the invocation
\* and the token and dispatches to the concrete tool implementation whose name
\* equals the invocation's tool name, returning that tool's result: every
\* execute of an invocation left the invocation Executed and the token dead,
\* and ran exactly the tool implementation the invocation names.
C20_ExecuteDispatchesToNamedTool ==
    \A n \in 1..Len(execs) :
        execs[n].via = "ToolInvocation" =>
            /\ invs[execs[n].inv].state = "Executed"
            /\ ~tokens[execs[n].token].live
            /\ execs[n].ran = <<execs[n].tool>>

\* ------------------------------------------------------------------ C21
\* Proposals that differ in what evaluate does not read: the action is one
\* the policy declares ("write") or one it does not ("execute"), and the
\* params carry an args key or not, next to a command or no command.
PairParams ==
    {[command |-> c, args |-> a] :
        c \in {JAbsent, JString(<<"l">>), JString(<<"r">>)}, a \in {JAbsent, JArray}}

PairProposals ==
    {new(t, a, p) : t \in {"bash", "sh"}, a \in {"execute", "write"}, p \in PairParams}

InitPair == InitWith(PipelineFiles)

NextPair ==
    \/ \E p \in PairProposals : New(p, MaxInv)
    \/ \E i \in 1..Len(invs) : Evaluate(i)

SpecPair == InitPair /\ [][NextPair]_vars

\* C21: the decision of evaluate depends only on the invocation's tool name
\* and params["command"] (and the policy). Two evaluated proposals that agree
\* on those two values received the same decision, through the same calls,
\* whatever their action names and their other params; in particular an action
\* name the policy declares is treated like one it does not declare.
C21_DecisionDependsOnToolAndCommand ==
    \A i, j \in 1..Len(invs) :
        /\ evals[i].done /\ evals[j].done
        /\ invs[i].tool = invs[j].tool
        /\ invs[i].params.command = invs[j].params.command
        => /\ evals[i].decision = evals[j].decision
           /\ evals[i].calls = evals[j].calls

\* Witness: two proposals for the same tool and command, one with the action
\* "write" the policy declares as Commit and no args, the other with the action
\* "execute" and args, were both allowed.
C21_Witness ==
    \E i, j \in 1..Len(invs) :
        /\ evals[i].done /\ evals[j].done
        /\ invs[i].tool = invs[j].tool
        /\ invs[i].params.command = invs[j].params.command
        /\ invs[i].action = "write" /\ invs[j].action = "execute"
        /\ invs[i].params.args = JAbsent /\ invs[j].params.args = JArray
        /\ evals[i].decision.kind = "Allow"
        /\ evals[j].decision = evals[i].decision

====
